---- MODULE Spec2Model ----
(***************************************************************************)
(* Model of chatterino::Updates (src/src/singletons/Updates.cpp): the      *)
(* update check, the install driver and the status they maintain.          *)
(*                                                                         *)
(* QStrings are modelled as sequences of one-character strings, so that    *)
(* "v." + currentVersion_ is a real concatenation and semver parsing is a  *)
(* real scan of the characters.                                            *)
(*                                                                         *)
(* Scheduling: checkForUpdates and installUpdates run on the owner (GUI)   *)
(* thread and return after handing their request to the network layer;     *)
(* the onSuccess/onError handler of a request runs later, on the same      *)
(* thread, once the request has completed. Each action below is therefore  *)
(* one whole handler. A request completes with an error (network error or  *)
(* timeout) or with a body; requests in flight complete in any order.      *)
(*                                                                         *)
(* The build is part of the state: the platform macro, portable mode, the  *)
(* nightly and Flatpak flags and CHATTERINO_VERSION are chosen in Init and *)
(* never change.                                                           *)
(***************************************************************************)
EXTENDS Integers, Sequences, FiniteSets, TLC

(* ------------------------------------------------------------------ *)
(* Bounds of the model                                                 *)
(* ------------------------------------------------------------------ *)

\* Requests (metadata fetches plus artifact downloads) in flight at once.
MaxInFlight == 2

\* Largest downloaded artifact, in bytes (0 is an empty body).
MaxBytes == 1

\* statusUpdated notifications posted to the owner thread and not yet run.
MaxPosted == 2

(* ------------------------------------------------------------------ *)
(* Strings                                                             *)
(* ------------------------------------------------------------------ *)

EmptyStr == << >>

V_1_0_0 == <<"1", ".", "0", ".", "0">>
V_1_9_0 == <<"1", ".", "9", ".", "0">>
V_2_0_0 == <<"2", ".", "0", ".", "0">>

\* The literal "v." of Updates.cpp:314.
VDot == <<"v", ".">>

\* CHATTERINO_VERSION values the model is built with.
CurrentVersions == {V_2_0_0, V_1_9_0}

\* A QJsonValue holding the string s.
JsonString(s) == [isString |-> TRUE, str |-> s]

\* A QJsonValue that is absent or not a string: isString() is false and
\* toString() gives the empty string.
JsonUndefined == [isString |-> FALSE, str |-> EmptyStr]

\* tag_name values of the fetched JSON document.
Tags ==
    {JsonUndefined} \cup
    {JsonString(s) : s \in {EmptyStr, V_1_0_0, V_2_0_0,
                            VDot \o V_1_0_0, VDot \o V_1_9_0, VDot \o V_2_0_0}}

\* download.installer.url and download.portable.url values.
Urls == {JsonUndefined, JsonString(<<"a">>), JsonString(<<"b">>)}

\* The parsed body of a successful metadata fetch (result.parseJson()).
Payloads == [tag_name : Tags, installer : Urls, portable : Urls]

(* ------------------------------------------------------------------ *)
(* semver::version, as used by Updates::isDowngradeOf                  *)
(* ------------------------------------------------------------------ *)

Digits == {"0", "1", "2", "3", "4", "5", "6", "7", "8", "9"}

to_digit(c) ==
    CASE c = "0" -> 0 [] c = "1" -> 1 [] c = "2" -> 2 [] c = "3" -> 3
      [] c = "4" -> 4 [] c = "5" -> 5 [] c = "6" -> 6 [] c = "7" -> 7
      [] c = "8" -> 8 [] c = "9" -> 9

\* Scans the digits of s from position i on, with t the value read so far:
\* the result is the value and the position after the last digit.
RECURSIVE ScanDigits(_, _, _)
ScanDigits(s, i, t) ==
    IF i <= Len(s) /\ s[i] \in Digits
    THEN ScanDigits(s, i + 1, t * 10 + to_digit(s[i]))
    ELSE [val |-> t, next |-> i]

\* from_chars for a number: fails (next = 0) unless a digit stands at i.
from_chars_num(s, i) ==
    IF i >= 1 /\ i <= Len(s) /\ s[i] \in Digits
    THEN ScanDigits(s, i, 0)
    ELSE [val |-> 0, next |-> 0]

check_delimiter(s, i, d) == i >= 1 /\ i <= Len(s) /\ s[i] = d

ParseError == [ok |-> FALSE, major |-> 0, minor |-> 0, patch |-> 0]

\* semver::version::from_string_noexcept for major.minor.patch strings.
from_string_noexcept(s) ==
    IF Len(s) < 5
    THEN ParseError
    ELSE LET ma == from_chars_num(s, 1) IN
         IF ~check_delimiter(s, ma.next, ".") THEN ParseError
         ELSE LET mi == from_chars_num(s, ma.next + 1) IN
              IF ~check_delimiter(s, mi.next, ".") THEN ParseError
              ELSE LET pa == from_chars_num(s, mi.next + 1) IN
                   IF pa.next = Len(s) + 1
                   THEN [ok |-> TRUE, major |-> ma.val,
                         minor |-> mi.val, patch |-> pa.val]
                   ELSE ParseError

\* semver operator<.
VersionLess(a, b) ==
    \/ a.major < b.major
    \/ a.major = b.major /\ a.minor < b.minor
    \/ a.major = b.major /\ a.minor = b.minor /\ a.patch < b.patch

\* A variant of isDowngradeOf that compares with <= in place of <.
isDowngradeOf_OrEqual(online, current) ==
    LET onlineVersion == from_string_noexcept(online)
        currentVersion == from_string_noexcept(current)
    IN  IF ~onlineVersion.ok THEN FALSE
        ELSE IF ~currentVersion.ok THEN FALSE
        ELSE ~VersionLess(currentVersion, onlineVersion)

\* Updates::isDowngradeOf.
isDowngradeOf(online, current) ==
    LET onlineVersion == from_string_noexcept(online)
        currentVersion == from_string_noexcept(current)
    IN  IF ~onlineVersion.ok THEN FALSE
        ELSE IF ~currentVersion.ok THEN FALSE
        ELSE VersionLess(onlineVersion, currentVersion)

(* ------------------------------------------------------------------ *)
(* State                                                               *)
(* ------------------------------------------------------------------ *)

VARIABLES
    platform,         \* the Q_OS_* macro the build was compiled with
    isPortable,       \* getPaths()->isPortable()
    isNightly,        \* Modes::instance().isNightly
    isFlatpak,        \* Version::instance().isFlatpak()
    currentVersion_,  \* Updates::currentVersion_
    status_,          \* Updates::status_
    onlineVersion_,   \* Updates::onlineVersion_
    isDowngrade_,     \* Updates::isDowngrade_
    updateExe_,       \* Updates::updateExe_
    updatePortable_,  \* Updates::updatePortable_
    checks,           \* metadata requests in flight
    downloads,        \* artifact requests in flight, each with its URL
    last,             \* the handler that ran last and what it did outside
    posted,           \* statusUpdated calls posted by setStatus_, oldest first
    comparison,       \* a call of the static Updates::isDowngradeOf
    knownBadges_,     \* SeventvBadges::knownBadges_
    badgeMap_,        \* SeventvBadges::badgeMap_
    seventvLoad,      \* the request of SeventvBadges::loadSeventvBadges
    badgeCall,        \* the call of SeventvBadges that ran last
    pc,               \* where the owner thread is in the code of Updates
    writer            \* the thread that assigned a field of Updates last

build == <<platform, isPortable, isNightly, isFlatpak, currentVersion_>>

fields ==
    <<status_, onlineVersion_, isDowngrade_, updateExe_, updatePortable_>>

\* The state of Updates and of its requests.
updates == <<build, fields, checks, downloads, last, posted>>

\* The state of SeventvBadges.
badges == <<knownBadges_, badgeMap_, seventvLoad, badgeCall>>

\* The threads that run the code of Updates.
threads == <<pc, writer>>

vars == <<updates, comparison, badges, threads>>

Platforms == {"win", "macos", "linux", "other"}

Status ==
    {"Idle", "Searching", "UpdateAvailable", "NoUpdateAvailable",
     "SearchFailed", "Downloading", "DownloadFailed", "WriteFileFailed"}

\* What a handler does outside the object: a request handed to the network
\* layer, a file written, a process started, the process told to exit or
\* aborted, a message box, a URL opened in the browser, a status handed to
\* the subscribers of statusUpdated.
NoEffects ==
    [op |-> "none", request |-> FALSE, write |-> "none", launch |-> "none",
     exit |-> FALSE, abort |-> FALSE, dialog |-> FALSE, openUrl |-> FALSE,
     notified |-> "none"]

Ran(op) == [NoEffects EXCEPT !.op = op]

\* Version::isSupportedOS(): Windows, GNU/Linux or macOS.
isSupportedOS == platform \in {"win", "macos", "linux"}

\* The process runs its handlers until it exits or is aborted.
Running == ~last.exit /\ ~last.abort

InFlight == checks + Len(downloads)

\* Updates::setStatus_: the status after the call.
setStatus_(status) == IF status_ # status THEN status ELSE status_

\* A variant of statusUpdated that lacks the test status_ != status.
statusUpdated_Unconditional(status) == <<status>>

\* Updates::setStatus_: the statusUpdated.invoke(status) calls it posts to
\* the owner thread.
statusUpdated(status) == IF status_ # status THEN <<status>> ELSE << >>

\* No call of isDowngradeOf is under way.
NoComparison == [online |-> EmptyStr, current |-> EmptyStr, result |-> "none"]

\* An empty std::unordered_map.
EmptyMap == [key \in {} |-> key]

NoBadgeCall ==
    [op |-> "none", badgeID |-> "none", userID |-> "none", result |-> << >>]

\* SeventvBadges after construction.
InitBadges ==
    /\ knownBadges_ = EmptyMap
    /\ badgeMap_ = EmptyMap
    /\ seventvLoad = "none"
    /\ badgeCall = NoBadgeCall

\* The owner thread is in its event loop and no field was assigned.
InitThreads ==
    /\ pc = "eventLoop"
    /\ writer = "none"

Init ==
    /\ platform \in Platforms
    /\ isPortable \in BOOLEAN
    /\ isNightly \in BOOLEAN
    /\ isFlatpak \in BOOLEAN
    /\ isFlatpak => platform = "linux"
    /\ currentVersion_ \in CurrentVersions
    /\ status_ = "Idle"
    /\ onlineVersion_ = EmptyStr
    /\ isDowngrade_ = FALSE
    /\ updateExe_ = EmptyStr
    /\ updatePortable_ = EmptyStr
    /\ checks = 0
    /\ downloads = << >>
    /\ last = NoEffects
    /\ posted = << >>
    /\ comparison = NoComparison
    /\ InitBadges
    /\ InitThreads

(* ------------------------------------------------------------------ *)
(* Updates::checkForUpdates                                            *)
(* ------------------------------------------------------------------ *)

\* A variant of CheckDisabled that lacks the test of isNightly.
CheckDisabled_WithoutNightly == ~isSupportedOS \/ isFlatpak

\* The three early returns of checkForUpdates.
CheckDisabled == ~isSupportedOS \/ isFlatpak \/ isNightly

\* The caller's part: the guards, the request, setStatus_(Searching).
checkForUpdates ==
    /\ Running
    /\ IF CheckDisabled
       THEN /\ last' = Ran("checkForUpdates")
            /\ UNCHANGED <<build, fields, checks, downloads, posted>>
       ELSE /\ InFlight < MaxInFlight
            /\ Len(posted) < MaxPosted
            /\ checks' = checks + 1
            /\ status_' = setStatus_("Searching")
            /\ posted' = posted \o statusUpdated("Searching")
            /\ last' = [Ran("checkForUpdates") EXCEPT !.request = TRUE]
            /\ UNCHANGED <<build, onlineVersion_, isDowngrade_, updateExe_,
                           updatePortable_, downloads>>

\* The metadata request ends with a network error or a timeout. The request
\* has no onError handler, so no code of Updates runs.
checkRequestFailed ==
    /\ Running
    /\ checks > 0
    /\ checks' = checks - 1
    /\ last' = Ran("checkRequestFailed")
    /\ UNCHANGED <<build, fields, downloads, posted>>

\* The fields after the onSuccess handler of the metadata request, on a
\* build for Windows (Q_OS_WIN).
checkOnSuccessWin(object) ==
    LET version_val == object.tag_name
        updateExe_val == object.installer
        portable_val == object.portable
        online == version_val.str
    IN  IF ~version_val.isString
        THEN [status |-> setStatus_("SearchFailed"),
              posted |-> statusUpdated("SearchFailed"),
              onlineVersion |-> onlineVersion_, isDowngrade |-> isDowngrade_,
              updateExe |-> updateExe_, updatePortable |-> updatePortable_]
        ELSE IF ~updateExe_val.isString
        THEN [status |-> setStatus_("SearchFailed"),
              posted |-> statusUpdated("SearchFailed"),
              onlineVersion |-> onlineVersion_, isDowngrade |-> isDowngrade_,
              updateExe |-> updateExe_, updatePortable |-> updatePortable_]
        ELSE IF ~portable_val.isString
        THEN [status |-> setStatus_("SearchFailed"),
              posted |-> statusUpdated("SearchFailed"),
              onlineVersion |-> onlineVersion_, isDowngrade |-> isDowngrade_,
              updateExe |-> updateExe_val.str,
              updatePortable |-> updatePortable_]
        ELSE IF VDot \o currentVersion_ # online
        THEN [status |-> setStatus_("UpdateAvailable"),
              posted |-> statusUpdated("UpdateAvailable"),
              onlineVersion |-> online,
              isDowngrade |-> isDowngradeOf(online, currentVersion_),
              updateExe |-> updateExe_val.str,
              updatePortable |-> portable_val.str]
        ELSE [status |-> setStatus_("NoUpdateAvailable"),
              posted |-> statusUpdated("NoUpdateAvailable"),
              onlineVersion |-> online, isDowngrade |-> isDowngrade_,
              updateExe |-> updateExe_val.str,
              updatePortable |-> portable_val.str]

\* The same on the other builds: after the tag_name test the handler
\* returns Failure (the #else branch).
checkOnSuccessOther(object) ==
    LET version_val == object.tag_name
    IN  IF ~version_val.isString
        THEN [status |-> setStatus_("SearchFailed"),
              posted |-> statusUpdated("SearchFailed"),
              onlineVersion |-> onlineVersion_, isDowngrade |-> isDowngrade_,
              updateExe |-> updateExe_, updatePortable |-> updatePortable_]
        ELSE [status |-> status_,
              posted |-> << >>,
              onlineVersion |-> onlineVersion_, isDowngrade |-> isDowngrade_,
              updateExe |-> updateExe_, updatePortable |-> updatePortable_]

\* The metadata request ends with a body: the onSuccess handler runs.
checkOnSuccess(object) ==
    /\ Running
    /\ checks > 0
    /\ Len(posted) < MaxPosted
    /\ checks' = checks - 1
    /\ LET after == IF platform = "win"
                    THEN checkOnSuccessWin(object)
                    ELSE checkOnSuccessOther(object)
       IN  /\ status_' = after.status
           /\ onlineVersion_' = after.onlineVersion
           /\ isDowngrade_' = after.isDowngrade
           /\ updateExe_' = after.updateExe
           /\ updatePortable_' = after.updatePortable
           /\ posted' = posted \o after.posted
    /\ last' = Ran("checkOnSuccess")
    /\ UNCHANGED <<build, downloads>>

(* ------------------------------------------------------------------ *)
(* Updates::installUpdates                                             *)
(* ------------------------------------------------------------------ *)

\* A variant of InstallAllowed that also lets a call in Downloading through.
InstallAllowed_WhileDownloading ==
    status_ \in {"UpdateAvailable", "Downloading"}

\* A variant of InstallAllowed that also lets a failed download through.
InstallAllowed_AfterFailure ==
    status_ \in {"UpdateAvailable", "DownloadFailed"}

\* The precondition tested at the top of installUpdates.
InstallAllowed == status_ = "UpdateAvailable"

\* The artifact request of the Windows build: NetworkRequest(updatePortable_)
\* in portable mode, NetworkRequest(updateExe_) otherwise.
ArtifactRequest ==
    IF isPortable
    THEN [kind |-> "portable", url |-> updatePortable_]
    ELSE [kind |-> "installer", url |-> updateExe_]

\* The caller's part. A call in another status runs into assert(false): a
\* build with assertions aborts there, a build without them returns.
installUpdates ==
    /\ Running
    /\ IF ~InstallAllowed
       THEN /\ \E asserts \in BOOLEAN :
                 last' = [Ran("installUpdates") EXCEPT !.abort = asserts]
            /\ UNCHANGED <<build, fields, checks, downloads, posted>>
       ELSE IF platform = "win"
       THEN /\ InFlight < MaxInFlight
            /\ Len(posted) < MaxPosted
            /\ downloads' = Append(downloads, ArtifactRequest)
            /\ status_' = setStatus_("Downloading")
            /\ posted' = posted \o statusUpdated("Downloading")
            /\ last' = [Ran("installUpdates") EXCEPT
                           !.dialog = TRUE, !.request = TRUE]
            /\ UNCHANGED <<build, onlineVersion_, isDowngrade_, updateExe_,
                           updatePortable_, checks>>
       ELSE IF platform \in {"macos", "linux"}
       THEN /\ last' = [Ran("installUpdates") EXCEPT
                           !.dialog = TRUE, !.openUrl = TRUE]
            /\ UNCHANGED <<build, fields, checks, downloads, posted>>
       ELSE /\ last' = Ran("installUpdates")
            /\ UNCHANGED <<build, fields, checks, downloads, posted>>

RemoveAt(s, i) == SubSeq(s, 1, i - 1) \o SubSeq(s, i + 1, Len(s))

\* A variant of downloadOnError that shows the message box but leaves out
\* setStatus_(DownloadFailed).
downloadOnError_WithoutStatus(i) ==
    /\ Running
    /\ i \in DOMAIN downloads
    /\ downloads' = RemoveAt(downloads, i)
    /\ last' = [Ran("downloadOnError") EXCEPT !.dialog = TRUE]
    /\ UNCHANGED <<build, fields, checks, posted>>

\* The artifact request i ends with a network error or a timeout: the
\* onError handler of either path.
downloadOnError(i) ==
    /\ Running
    /\ i \in DOMAIN downloads
    /\ Len(posted) < MaxPosted
    /\ downloads' = RemoveAt(downloads, i)
    /\ status_' = setStatus_("DownloadFailed")
    /\ posted' = posted \o statusUpdated("DownloadFailed")
    /\ last' = [Ran("downloadOnError") EXCEPT !.dialog = TRUE]
    /\ UNCHANGED <<build, onlineVersion_, isDowngrade_, updateExe_,
                   updatePortable_, checks>>

\* QFile::write gives -1 for an error, the number of bytes otherwise.
WriteFailed(written) == written = -1

WriteEffect(written) ==
    IF written = -1 THEN "failed" ELSE IF written = 0 THEN "empty" ELSE "ok"

\* onSuccess of the portable path: update.zip is written, the updater is
\* started (the result of startDetached is not read) and exit(0) is called.
portableOnSuccess(written, started) ==
    IF WriteFailed(written)
    THEN [status |-> setStatus_("WriteFileFailed"),
          posted |-> statusUpdated("WriteFileFailed"),
          effects |-> [Ran("downloadOnSuccess") EXCEPT !.write = "failed"]]
    ELSE [status |-> status_,
          posted |-> << >>,
          effects |-> [Ran("downloadOnSuccess") EXCEPT
                          !.write = WriteEffect(written),
                          !.launch = IF started THEN "ok" ELSE "failed",
                          !.exit = TRUE]]

\* onSuccess of the installer path: Update.exe is written and started;
\* exit(0) is called when startDetached succeeded.
installerOnSuccess(written, started) ==
    IF WriteFailed(written)
    THEN [status |-> setStatus_("WriteFileFailed"),
          posted |-> statusUpdated("WriteFileFailed"),
          effects |-> [Ran("downloadOnSuccess") EXCEPT
                          !.write = "failed", !.dialog = TRUE,
                          !.openUrl = TRUE]]
    ELSE IF started
    THEN [status |-> status_,
          posted |-> << >>,
          effects |-> [Ran("downloadOnSuccess") EXCEPT
                          !.write = WriteEffect(written),
                          !.launch = "ok", !.exit = TRUE]]
    ELSE [status |-> status_,
          posted |-> << >>,
          effects |-> [Ran("downloadOnSuccess") EXCEPT
                          !.write = WriteEffect(written),
                          !.launch = "failed", !.dialog = TRUE,
                          !.openUrl = TRUE]]

\* The artifact request i ends with a body of `bytes` bytes; `written` is
\* what QFile::write returns, `started` what QProcess::startDetached returns.
downloadOnSuccess(i, bytes, written, started) ==
    /\ Running
    /\ i \in DOMAIN downloads
    /\ written \in {-1, bytes}
    /\ Len(posted) < MaxPosted
    /\ downloads' = RemoveAt(downloads, i)
    /\ LET after == IF downloads[i].kind = "portable"
                    THEN portableOnSuccess(written, started)
                    ELSE installerOnSuccess(written, started)
       IN  /\ status_' = after.status
           /\ posted' = posted \o after.posted
           /\ last' = after.effects
    /\ UNCHANGED <<build, onlineVersion_, isDowngrade_, updateExe_,
                   updatePortable_, checks>>

(* ------------------------------------------------------------------ *)
(* Updates::statusUpdated                                              *)
(* ------------------------------------------------------------------ *)

\* The owner thread runs the oldest call posted by setStatus_:
\* statusUpdated.invoke(status).
invokeStatusUpdated ==
    /\ Running
    /\ posted # << >>
    /\ posted' = Tail(posted)
    /\ last' = [Ran("statusUpdated") EXCEPT !.notified = Head(posted)]
    /\ UNCHANGED <<build, fields, checks, downloads>>

(* ------------------------------------------------------------------ *)
(* Helpers that read the status                                        *)
(* ------------------------------------------------------------------ *)

\* A variant of shouldShowUpdateButton without the Downloading case.
shouldShowUpdateButton_WithoutDownloading ==
    CASE status_ = "UpdateAvailable" -> TRUE
      [] status_ = "SearchFailed" -> TRUE
      [] status_ = "DownloadFailed" -> TRUE
      [] status_ = "WriteFileFailed" -> TRUE
      [] OTHER -> FALSE

\* Updates::shouldShowUpdateButton.
shouldShowUpdateButton ==
    CASE status_ = "UpdateAvailable" -> TRUE
      [] status_ = "SearchFailed" -> TRUE
      [] status_ = "Downloading" -> TRUE
      [] status_ = "DownloadFailed" -> TRUE
      [] status_ = "WriteFileFailed" -> TRUE
      [] OTHER -> FALSE

\* Updates::isError.
isError ==
    CASE status_ = "SearchFailed" -> TRUE
      [] status_ = "DownloadFailed" -> TRUE
      [] status_ = "WriteFileFailed" -> TRUE
      [] OTHER -> FALSE

(* ------------------------------------------------------------------ *)
(* Specification                                                       *)
(* ------------------------------------------------------------------ *)

\* The steps of Updates; they leave the rest of the program alone.
Next ==
    \/ checkForUpdates /\ UNCHANGED <<comparison, badges, threads>>
    \/ checkRequestFailed /\ UNCHANGED <<comparison, badges, threads>>
    \/ \E object \in Payloads :
          checkOnSuccess(object) /\ UNCHANGED <<comparison, badges, threads>>
    \/ installUpdates /\ UNCHANGED <<comparison, badges, threads>>
    \/ \E i \in 1..MaxInFlight + 1 :
          downloadOnError(i) /\ UNCHANGED <<comparison, badges, threads>>
    \/ \E i \in 1..MaxInFlight + 1, bytes \in 0..MaxBytes,
          written \in -1..MaxBytes, started \in BOOLEAN :
          downloadOnSuccess(i, bytes, written, started)
          /\ UNCHANGED <<comparison, badges, threads>>
    \/ invokeStatusUpdated /\ UNCHANGED <<comparison, badges, threads>>

Spec == Init /\ [][Next]_vars

(* ------------------------------------------------------------------ *)
(* Updates statement by statement, with the thread of each handler     *)
(* ------------------------------------------------------------------ *)

\* The thread that calls checkForUpdates and installUpdates and runs the
\* posted functions.
OwnerThread == "owner"

\* A variant of CallbackThread: the callbacks run on the thread of the
\* request.
CallbackThread_Worker == "worker"

\* The thread on which a NetworkRequest runs onSuccess and onError.
CallbackThread == "owner"

\* A handler can start on the thread: the owner thread runs one at a time,
\* from its event loop.
CanRunOn(thread) == thread = OwnerThread => pc = "eventLoop"

\* The thread after the step, if the step assigned a field.
Wrote(thread) == IF fields' # fields THEN thread ELSE writer

\* checkForUpdates up to and including .execute().
checkForUpdatesExecute ==
    /\ Running
    /\ CanRunOn(OwnerThread)
    /\ IF CheckDisabled
       THEN /\ last' = Ran("checkForUpdates")
            /\ UNCHANGED <<checks, pc>>
       ELSE /\ InFlight < MaxInFlight
            /\ Len(posted) < MaxPosted
            /\ checks' = checks + 1
            /\ last' = [Ran("checkForUpdates") EXCEPT !.request = TRUE]
            /\ pc' = "checkForUpdates_setStatus"
    /\ UNCHANGED <<build, fields, downloads, posted, writer>>

\* checkForUpdates after .execute(): setStatus_(Searching).
checkForUpdatesSetStatus ==
    /\ pc = "checkForUpdates_setStatus"
    /\ status_' = setStatus_("Searching")
    /\ posted' = posted \o statusUpdated("Searching")
    /\ pc' = "eventLoop"
    /\ UNCHANGED <<build, onlineVersion_, isDowngrade_, updateExe_,
                   updatePortable_, checks, downloads, last>>
    /\ writer' = Wrote(OwnerThread)

\* installUpdates where it sends no request.
installUpdatesWithoutRequest ==
    /\ CanRunOn(OwnerThread)
    /\ ~(InstallAllowed /\ platform = "win")
    /\ installUpdates
    /\ UNCHANGED threads

\* installUpdates on Windows up to and including .execute().
installUpdatesExecute ==
    /\ Running
    /\ CanRunOn(OwnerThread)
    /\ InstallAllowed
    /\ platform = "win"
    /\ InFlight < MaxInFlight
    /\ Len(posted) < MaxPosted
    /\ downloads' = Append(downloads, ArtifactRequest)
    /\ last' = [Ran("installUpdates") EXCEPT !.dialog = TRUE, !.request = TRUE]
    /\ pc' = "installUpdates_setStatus"
    /\ UNCHANGED <<build, fields, checks, posted, writer>>

\* installUpdates after .execute(): setStatus_(Downloading).
installUpdatesSetStatus ==
    /\ pc = "installUpdates_setStatus"
    /\ status_' = setStatus_("Downloading")
    /\ posted' = posted \o statusUpdated("Downloading")
    /\ pc' = "eventLoop"
    /\ UNCHANGED <<build, onlineVersion_, isDowngrade_, updateExe_,
                   updatePortable_, checks, downloads, last>>
    /\ writer' = Wrote(OwnerThread)

\* The steps of Updates with the thread of each; the callbacks of a
\* request run on CallbackThread.
NextThreads ==
    \/ checkForUpdatesExecute /\ UNCHANGED <<comparison, badges>>
    \/ checkForUpdatesSetStatus /\ UNCHANGED <<comparison, badges>>
    \/ checkRequestFailed /\ UNCHANGED <<comparison, badges, threads>>
    \/ \E object \in Payloads :
          /\ CanRunOn(CallbackThread)
          /\ checkOnSuccess(object)
          /\ writer' = Wrote(CallbackThread)
          /\ UNCHANGED <<comparison, badges, pc>>
    \/ installUpdatesWithoutRequest /\ UNCHANGED <<comparison, badges>>
    \/ installUpdatesExecute /\ UNCHANGED <<comparison, badges>>
    \/ installUpdatesSetStatus /\ UNCHANGED <<comparison, badges>>
    \/ \E i \in 1..MaxInFlight + 1 :
          /\ CanRunOn(CallbackThread)
          /\ downloadOnError(i)
          /\ writer' = Wrote(CallbackThread)
          /\ UNCHANGED <<comparison, badges, pc>>
    \/ \E i \in 1..MaxInFlight + 1, bytes \in 0..MaxBytes,
          written \in -1..MaxBytes, started \in BOOLEAN :
          /\ CanRunOn(CallbackThread)
          /\ downloadOnSuccess(i, bytes, written, started)
          /\ writer' = Wrote(CallbackThread)
          /\ UNCHANGED <<comparison, badges, pc>>
    \/ /\ CanRunOn(OwnerThread)
       /\ invokeStatusUpdated
       /\ UNCHANGED <<comparison, badges, threads>>

SpecThreads == Init /\ [][NextThreads]_vars

(* ------------------------------------------------------------------ *)
(* SeventvBadges                                                       *)
(* ------------------------------------------------------------------ *)

\* Most badges in one cosmetics answer.
MaxBadges == 1

BadgeIds == {"b1", "b2"}
UserIds == {"u1", "u2"}
Tooltips == {"t1", "t2"}

\* The Emote built for a badge: its id and tooltip.
BadgeEmote(badgeID, tooltip) == [id |-> badgeID, tooltip |-> tooltip]

\* The badge objects addBadge is called with.
BadgeJsons == [id : BadgeIds, tooltip : Tooltips, image1Empty : BOOLEAN]

\* The entries of "badges" in the cosmetics answer.
CosmeticsBadges == [id : BadgeIds, tooltip : Tooltips, users : SUBSET UserIds]

CosmeticsAnswers ==
    UNION {[1..n -> CosmeticsBadges] : n \in 0..MaxBadges}

\* map[key] = value of std::unordered_map.
Put(map, key, value) == (key :> value) @@ map

\* map.erase(key).
Erase(map, key) == [k \in (DOMAIN map) \ {key} |-> map[k]]

BadgeCalled(op, badgeID, userID) ==
    [op |-> op, badgeID |-> badgeID, userID |-> userID, result |-> << >>]

\* SeventvBadges::getBadge: the badge of the user, or none.
getBadge(id) ==
    IF id \in DOMAIN badgeMap_ THEN <<badgeMap_[id]>> ELSE << >>

\* A caller reads the badge of a user.
getBadgeCall ==
    \E id \in UserIds :
        /\ badgeCall' = [BadgeCalled("getBadge", "none", id)
                            EXCEPT !.result = getBadge(id)]
        /\ UNCHANGED <<knownBadges_, badgeMap_, seventvLoad>>

\* SeventvBadges::assignBadgeToUser.
assignBadgeToUser ==
    \E badgeID \in BadgeIds, userID \in UserIds :
        /\ badgeMap_' =
               IF badgeID \in DOMAIN knownBadges_
               THEN Put(badgeMap_, userID, knownBadges_[badgeID])
               ELSE badgeMap_
        /\ badgeCall' = BadgeCalled("assignBadgeToUser", badgeID, userID)
        /\ UNCHANGED <<knownBadges_, seventvLoad>>

\* The test of clearBadgeFromUser that erases whatever badge the user has.
ClearApplies_AnyBadge(badgeID, userID) == userID \in DOMAIN badgeMap_

\* The test of clearBadgeFromUser: the user has the badge with this id.
ClearApplies(badgeID, userID) ==
    /\ userID \in DOMAIN badgeMap_
    /\ badgeMap_[userID].id = badgeID

\* SeventvBadges::clearBadgeFromUser.
clearBadgeFromUser ==
    \E badgeID \in BadgeIds, userID \in UserIds :
        /\ badgeMap_' =
               IF ClearApplies(badgeID, userID)
               THEN Erase(badgeMap_, userID)
               ELSE badgeMap_
        /\ badgeCall' = BadgeCalled("clearBadgeFromUser", badgeID, userID)
        /\ UNCHANGED <<knownBadges_, seventvLoad>>

\* SeventvBadges::addBadge.
addBadge ==
    \E badgeJson \in BadgeJsons :
        /\ knownBadges_' =
               IF badgeJson.id \in DOMAIN knownBadges_ THEN knownBadges_
               ELSE IF badgeJson.image1Empty THEN knownBadges_
               ELSE Put(knownBadges_, badgeJson.id,
                        BadgeEmote(badgeJson.id, badgeJson.tooltip))
        /\ badgeCall' = BadgeCalled("addBadge", badgeJson.id, "none")
        /\ UNCHANGED <<badgeMap_, seventvLoad>>

\* The loop of the onSuccess callback of loadSeventvBadges over the
\* badges from the k-th on; maps is <<knownBadges_, badgeMap_>>.
RECURSIVE LoadBadgesFrom(_, _, _)
LoadBadgesFrom(answer, k, maps) ==
    IF k > Len(answer) THEN maps
    ELSE LET badge == answer[k]
             emotePtr == BadgeEmote(badge.id, badge.tooltip)
         IN  LoadBadgesFrom(answer, k + 1,
                 <<Put(maps[1], badge.id, emotePtr),
                   [user \in (DOMAIN maps[2]) \cup badge.users |->
                       IF user \in badge.users THEN emotePtr
                       ELSE maps[2][user]]>>)

\* SeventvBadges::initialize: loadSeventvBadges sends its request.
initialize ==
    /\ seventvLoad = "none"
    /\ seventvLoad' = "pending"
    /\ badgeCall' = BadgeCalled("initialize", "none", "none")
    /\ UNCHANGED <<knownBadges_, badgeMap_>>

\* The request of loadSeventvBadges succeeds.
loadOnSuccess ==
    \E answer \in CosmeticsAnswers :
        /\ seventvLoad = "pending"
        /\ seventvLoad' = "done"
        /\ LET maps == LoadBadgesFrom(answer, 1, <<knownBadges_, badgeMap_>>)
           IN  /\ knownBadges_' = maps[1]
               /\ badgeMap_' = maps[2]
        /\ badgeCall' = BadgeCalled("loadSeventvBadges", "none", "none")

\* The request of loadSeventvBadges fails: it has no onError handler.
loadFailed ==
    /\ seventvLoad = "pending"
    /\ seventvLoad' = "done"
    /\ badgeCall' = BadgeCalled("loadFailed", "none", "none")
    /\ UNCHANGED <<knownBadges_, badgeMap_>>

\* Updates with no check made on one build, no call of isDowngradeOf.
InitSeventvBadges ==
    /\ platform = "win"
    /\ isPortable = FALSE
    /\ isNightly = FALSE
    /\ isFlatpak = FALSE
    /\ currentVersion_ = V_2_0_0
    /\ status_ = "Idle"
    /\ onlineVersion_ = EmptyStr
    /\ isDowngrade_ = FALSE
    /\ updateExe_ = EmptyStr
    /\ updatePortable_ = EmptyStr
    /\ checks = 0
    /\ downloads = << >>
    /\ last = NoEffects
    /\ posted = << >>
    /\ comparison = NoComparison
    /\ InitBadges
    /\ InitThreads

NextSeventvBadges ==
    \/ initialize /\ UNCHANGED <<updates, comparison, threads>>
    \/ loadOnSuccess /\ UNCHANGED <<updates, comparison, threads>>
    \/ loadFailed /\ UNCHANGED <<updates, comparison, threads>>
    \/ addBadge /\ UNCHANGED <<updates, comparison, threads>>
    \/ assignBadgeToUser /\ UNCHANGED <<updates, comparison, threads>>
    \/ clearBadgeFromUser /\ UNCHANGED <<updates, comparison, threads>>
    \/ getBadgeCall /\ UNCHANGED <<updates, comparison, threads>>

SpecSeventvBadges == InitSeventvBadges /\ [][NextSeventvBadges]_vars

(* ------------------------------------------------------------------ *)
(* Updates::isDowngradeOf on its own                                   *)
(* ------------------------------------------------------------------ *)

V_1_10_0 == <<"1", ".", "1", "0", ".", "0">>

\* Strings handed to isDowngradeOf: semantic versions and strings that
\* are none.
VersionStrings ==
    {V_1_0_0, V_1_9_0, V_1_10_0, V_2_0_0,
     EmptyStr, VDot \o V_1_0_0, <<"2", ".", "0">>,
     <<"1", ".", "0", ".", "x">>, <<"1", ".", "0", ".", "0", ".">>,
     <<"1", ".", ".", "0", ".", "0">>}

\* Updates with no check made, on one build.
InitCompare ==
    /\ platform = "win"
    /\ isPortable = FALSE
    /\ isNightly = FALSE
    /\ isFlatpak = FALSE
    /\ currentVersion_ = V_2_0_0
    /\ status_ = "Idle"
    /\ onlineVersion_ = EmptyStr
    /\ isDowngrade_ = FALSE
    /\ updateExe_ = EmptyStr
    /\ updatePortable_ = EmptyStr
    /\ checks = 0
    /\ downloads = << >>
    /\ last = NoEffects
    /\ posted = << >>
    /\ InitBadges
    /\ InitThreads
    /\ comparison \in
           [online : VersionStrings, current : VersionStrings,
            result : {"none"}]

\* isDowngradeOf(online, current) is called and returns.
callIsDowngradeOf ==
    /\ comparison.result = "none"
    /\ comparison' =
           [comparison EXCEPT
               !.result = IF isDowngradeOf(comparison.online,
                                           comparison.current)
                          THEN "true" ELSE "false"]
    /\ UNCHANGED <<updates, badges, threads>>

NextCompare == callIsDowngradeOf

SpecCompare == InitCompare /\ [][NextCompare]_vars

(* ------------------------------------------------------------------ *)
(* Claims                                                              *)
(* ------------------------------------------------------------------ *)

TerminalStatus == {"UpdateAvailable", "NoUpdateAvailable", "SearchFailed"}

ErrorStatus == {"SearchFailed", "DownloadFailed", "WriteFileFailed"}

\* The fetched document lacks a string the build needs: tag_name on every
\* build, both download URLs on the Windows build.
Malformed(object) ==
    \/ ~object.tag_name.isString
    \/ platform = "win" /\ ~object.installer.isString
    \/ platform = "win" /\ ~object.portable.isString

\* C1: whenever a metadata request of checkForUpdates completes, whatever
\* its outcome and whatever the build, the status it leaves is one of
\* UpdateAvailable, NoUpdateAvailable and SearchFailed, never Searching.
C1_CheckEndsInTerminalStatus ==
    [][checks' < checks => status_' \in TerminalStatus]_vars

\* C2: whenever the metadata fetch fails (a network error, a timeout, or a
\* document that lacks tag_name or a download URL the build needs), the
\* status it leaves is SearchFailed.
C2_FailedFetchGivesSearchFailed ==
    [][(\/ checkRequestFailed
        \/ \E object \in Payloads : Malformed(object) /\ checkOnSuccess(object))
       => status_' = "SearchFailed"]_vars

\* C3: whenever the metadata fetch succeeds with a well-formed document, a
\* tag equal to "v." + current version gives NoUpdateAvailable, and any other
\* tag gives UpdateAvailable with online_version the tag and the artifact
\* URLs those of the document.
C3_WellFormedFetchGivesResult ==
    [][\A object \in Payloads :
          (~Malformed(object) /\ checkOnSuccess(object)) =>
              IF object.tag_name.str = VDot \o currentVersion_
              THEN status_' = "NoUpdateAvailable"
              ELSE /\ status_' = "UpdateAvailable"
                   /\ onlineVersion_' = object.tag_name.str
                   /\ platform = "win" =>
                          /\ updateExe_' = object.installer.str
                          /\ updatePortable_' = object.portable.str]_vars

\* The tag without its "v." prefix.
StripPrefix(tag) ==
    IF Len(tag) >= 2 /\ SubSeq(tag, 1, 2) = VDot
    THEN SubSeq(tag, 3, Len(tag))
    ELSE tag

\* The fetched version sorts lower than the current one.
SortsLower(tag, current) ==
    LET a == from_string_noexcept(StripPrefix(tag))
        b == from_string_noexcept(current)
    IN  a.ok /\ b.ok /\ VersionLess(a, b)

\* C4: in every reachable state, when the status is UpdateAvailable,
\* is_downgrade is true exactly if the fetched version, its "v." prefix
\* stripped, sorts lower than the current version; when the status is
\* NoUpdateAvailable, is_downgrade is not true.
C4_IsDowngradeReflectsLatestCheck ==
    /\ status_ = "UpdateAvailable" =>
           (isDowngrade_ <=> SortsLower(onlineVersion_, currentVersion_))
    /\ status_ = "NoUpdateAvailable" => ~isDowngrade_

\* C5: on a nightly build, an unsupported OS or a Flatpak build, a call of
\* checkForUpdates dispatches no request and changes neither the status
\* (Idle stays Idle) nor online_version, is_downgrade or the artifact URLs.
C5_DisabledCheckChangesNothing ==
    [][(/\ last'.op = "checkForUpdates"
        /\ \/ isNightly
           \/ isFlatpak
           \/ platform \notin {"win", "macos", "linux"})
       => /\ ~last'.request
          /\ UNCHANGED <<fields, checks, downloads>>]_vars

C5_Witness ==
    /\ last.op = "checkForUpdates"
    /\ isNightly
    /\ platform = "win"
    /\ status_ = "Idle"

\* C6: a call of installUpdates in a status other than UpdateAvailable
\* dispatches no request, writes no file, starts no process and changes
\* neither the status nor any other field.
C6_RejectedInstallDoesNothing ==
    [][(last'.op = "installUpdates" /\ status_ # "UpdateAvailable")
       => /\ ~last'.request
          /\ last'.write = "none"
          /\ last'.launch = "none"
          /\ ~last'.exit
          /\ UNCHANGED <<fields, checks, downloads>>]_vars

C6_Witness ==
    /\ last.op = "installUpdates"
    /\ platform = "win"
    /\ status_ = "DownloadFailed"

\* C7: on the Windows build, a call of installUpdates in UpdateAvailable
\* dispatches the download and moves the status to Downloading; when a
\* download fails, the status becomes DownloadFailed and no file is written,
\* no process is started and no exit is requested.
C7_FailedDownloadGivesDownloadFailed ==
    [][/\ (/\ last'.op = "installUpdates"
           /\ status_ = "UpdateAvailable"
           /\ platform = "win")
          => (status_' = "Downloading" /\ last'.request)
       /\ (last'.op = "downloadOnError" /\ Len(downloads') < Len(downloads))
          => /\ status_' = "DownloadFailed"
             /\ last'.write = "none"
             /\ last'.launch = "none"
             /\ ~last'.exit]_vars

C7_Witness ==
    /\ last.op = "downloadOnError"
    /\ status_ = "DownloadFailed"
    /\ isPortable

\* C8: after a download whose write failed or wrote zero bytes, on either
\* path, the status is WriteFileFailed, no process was started and no exit
\* was requested.
C8_BadWriteGivesWriteFileFailed ==
    (last.op = "downloadOnSuccess" /\ last.write \in {"failed", "empty"})
    => /\ status_ = "WriteFileFailed"
       /\ last.launch = "none"
       /\ ~last.exit

\* C9: on the installer path, after a download that was written but whose
\* launch failed, no exit was requested and the status is an error status.
C9_FailedLaunchGivesErrorStatus ==
    (/\ last.op = "downloadOnSuccess"
     /\ ~isPortable
     /\ last.write = "ok"
     /\ last.launch = "failed")
    => /\ ~last.exit
       /\ status_ \in ErrorStatus

\* C10: on either path, exit is requested only when the write did not fail
\* and the launch of the updater or installer succeeded.
C10_ExitOnlyAfterSuccessfulLaunch ==
    last.exit => (last.write \in {"ok", "empty"} /\ last.launch = "ok")

\* C11: in every reachable state, online_version is non-empty whenever the
\* status is UpdateAvailable or NoUpdateAvailable.
C11_OnlineVersionNonEmpty ==
    status_ \in {"UpdateAvailable", "NoUpdateAvailable"}
    => onlineVersion_ # EmptyStr

\* C13: every step that moves the status into SearchFailed, DownloadFailed
\* or WriteFileFailed shows a message box to the user.
C13_ErrorStatusComesWithDialog ==
    [][(status_' # status_ /\ status_' \in ErrorStatus) => last'.dialog]_vars

\* C14: shouldShowUpdateButton is true exactly in UpdateAvailable,
\* SearchFailed, Downloading, DownloadFailed and WriteFileFailed, isError is
\* true exactly in SearchFailed, DownloadFailed and WriteFileFailed, and
\* isError implies shouldShowUpdateButton.
C14_StatusHelpers ==
    /\ shouldShowUpdateButton <=>
           status_ \in {"UpdateAvailable", "SearchFailed", "Downloading",
                        "DownloadFailed", "WriteFileFailed"}
    /\ isError <=>
           status_ \in {"SearchFailed", "DownloadFailed", "WriteFileFailed"}
    /\ isError => shouldShowUpdateButton

C14_Witness ==
    /\ status_ = "Downloading"
    /\ shouldShowUpdateButton
    /\ ~isError

\* C17: a check that ends in SearchFailed leaves the installer URL, the
\* portable URL and online_version as they were before that check.
C17_FailedCheckKeepsUrls ==
    [][(/\ checks' < checks
        /\ last'.op = "checkOnSuccess"
        /\ status_' = "SearchFailed")
       => UNCHANGED <<updateExe_, updatePortable_, onlineVersion_>>]_vars

\* C18 as claimed: a checkForUpdates or installUpdates call made in
\* Searching or Downloading dispatches no request, and at most one check
\* and at most one install are in flight.
C18_NoSecondRequestWhilePending ==
    [][/\ (/\ last'.op \in {"checkForUpdates", "installUpdates"}
           /\ status_ \in {"Searching", "Downloading"})
          => UNCHANGED <<checks, downloads>>
       /\ checks' <= 1
       /\ Len(downloads') <= 1]_vars

\* C18 as amended: an installUpdates call made in Searching or Downloading
\* dispatches no request and changes no field; checkForUpdates has no such
\* guard.
C18_InstallWhilePendingIsRejected ==
    [][(/\ last'.op = "installUpdates"
        /\ status_ \in {"Searching", "Downloading"})
       => /\ ~last'.request
          /\ UNCHANGED <<fields, checks, downloads>>]_vars

C18_Witness ==
    /\ last.op = "installUpdates"
    /\ ~last.request
    /\ ~last.abort
    /\ status_ = "Downloading"
    /\ Len(downloads) = 1

\* C12: every step that changes the status posts exactly one statusUpdated
\* call carrying the new status behind those already posted; a step that
\* leaves the status as it is (a setStatus_ with the current value
\* included) posts none; and the posted calls run oldest first, each
\* handing its status to the subscribers.
C12_OneNotificationPerChange ==
    [][/\ status_' # status_ =>
              (posted' = Append(posted, status_') /\ last'.notified = "none")
       /\ status_' = status_ =>
              \/ posted' = posted /\ last'.notified = "none"
              \/ /\ posted # << >>
                 /\ last'.notified = Head(posted)
                 /\ posted' = Tail(posted)]_vars

\* A second checkForUpdates in Searching: it posts nothing.
C12_Witness ==
    /\ last.op = "checkForUpdates"
    /\ last.request
    /\ checks = 2
    /\ status_ = "Searching"
    /\ posted = <<"Searching">>

\* The semantic versions among VersionStrings, lowest first.
SemanticVersions == <<V_1_0_0, V_1_9_0, V_1_10_0, V_2_0_0>>

\* The place of a semantic version in that order, 0 for any other string.
Rank(s) ==
    IF \E k \in DOMAIN SemanticVersions : SemanticVersions[k] = s
    THEN CHOOSE k \in DOMAIN SemanticVersions : SemanticVersions[k] = s
    ELSE 0

C20_BadgeCacheKeepsKnownBadges ==
    [][LET call == badgeCall'
       IN  /\ call.op = "assignBadgeToUser" =>
                  /\ knownBadges_' = knownBadges_
                  /\ call.badgeID \in DOMAIN knownBadges_ =>
                         /\ DOMAIN badgeMap_' =
                                (DOMAIN badgeMap_) \cup {call.userID}
                         /\ badgeMap_'[call.userID] =
                                knownBadges_[call.badgeID]
                         /\ \A user \in (DOMAIN badgeMap_) \ {call.userID} :
                                badgeMap_'[user] = badgeMap_[user]
                  /\ call.badgeID \notin DOMAIN knownBadges_ =>
                         badgeMap_' = badgeMap_
           /\ call.op = "addBadge" =>
                  /\ badgeMap_' = badgeMap_
                  /\ \A id \in DOMAIN knownBadges_ :
                         /\ id \in DOMAIN knownBadges_'
                         /\ knownBadges_'[id] = knownBadges_[id]
           /\ call.op = "clearBadgeFromUser" =>
                  /\ knownBadges_' = knownBadges_
                  /\ \A user \in DOMAIN badgeMap_ :
                         \/ /\ user \in DOMAIN badgeMap_'
                            /\ badgeMap_'[user] = badgeMap_[user]
                         \/ /\ user = call.userID
                            /\ badgeMap_[user].id = call.badgeID
                            /\ user \notin DOMAIN badgeMap_'
                  /\ DOMAIN badgeMap_' \subseteq DOMAIN badgeMap_
           /\ call.op = "getBadge" =>
                  \A k \in DOMAIN call.result :
                      call.result[k].id \in DOMAIN knownBadges_'
           /\ \A user \in DOMAIN badgeMap_' :
                  badgeMap_'[user].id \in DOMAIN knownBadges_'
    ]_vars

\* A clear for badge b1 came for a user who by then has badge b2, and the
\* user keeps it.
C20_Witness ==
    /\ badgeCall.op = "clearBadgeFromUser"
    /\ badgeCall.userID \in DOMAIN badgeMap_
    /\ badgeMap_[badgeCall.userID].id # badgeCall.badgeID
    /\ badgeCall.badgeID \in DOMAIN knownBadges_

\* C16: checkForUpdates and installUpdates set the pending status before
\* they send the request: at the step that sends it the status is already
\* Searching, respectively Downloading; and between that step and the end
\* of the call no callback of a request has run, so the call's pending
\* status replaces no status written by a completion.
C16_PendingStatusBeforeDispatch ==
    [][/\ checks' > checks => status_ = "Searching"
       /\ Len(downloads') > Len(downloads) => status_ = "Downloading"
       /\ (pc # "eventLoop" /\ pc' = "eventLoop") =>
              /\ last.op \in {"checkForUpdates", "installUpdates"}
              /\ last.request
    ]_vars

====
